---- MODULE Spec2Model ----
(***************************************************************************)
(* Structured document editor framework: the element tree (a heap of node  *)
(* objects addressed by identity), the Document that owns the root         *)
(* Section, its observers and life-cycle state, the AddElementCommand /    *)
(* CommandHistory edit log, the flat DocumentIterator, the                 *)
(* CharacterFormatFactory, the ImageProxy, clone() and the visitors.       *)
(***************************************************************************)
EXTENDS Integers, Sequences, FiniteSets, TLC

\* ------------------------------------------------------------------ bounds
\* Most node objects the heap may hold in the edit-history specification.
MaxNodes == 7
\* Most node objects the heap may hold in the iterator specification.
MaxIterNodes == 5
\* Most next() calls past exhaustion between two resets.
MaxExtraNext == 2
\* Most getFormat calls made on the factory.
MaxFormatCalls == 3
\* Most node objects the heap may hold in the rendering specification.
MaxDrawNodes == 5
\* Most draw() calls one ImageProxy receives.
MaxDraws == 2
\* Most node objects the heap may hold in the document specification.
MaxDocNodes == 3
\* Most registrations the Document's observer list may hold.
MaxObservers == 2
\* Most node objects the heap may hold in the cloning specification.
MaxCloneNodes == 8
\* Most node objects the heap may hold in the visiting specification.
MaxVisitNodes == 5

\* --------------------------------------------------------------- the heap
\* nullptr
NoElem == 0
\* The Document's rootSection is the first object constructed.
Root == 1

VARIABLES
  heap,           \* node objects; a node's identity (address) is its index
  observers,      \* Document::observers
  notifications,  \* onDocumentChanged calls of the latest notifyObservers run, in call order
  currentState,   \* Document::currentState, by state name
  cmds,           \* the Command objects ever constructed; identity = index
  undoStack,      \* CommandHistory::undoStack, top last
  redoStack,      \* CommandHistory::redoStack, top last
  iter,           \* the DocumentIterator: elements, position
  session,        \* what the iterator's caller has seen since construction
  opLog,          \* the last edit operations called, most recent last
  formats,        \* CharacterFormatFactory::formats: key -> shared instance
  formatObjects,  \* the CharacterFormat objects made; identity = index
  formatCalls,    \* the getFormat calls made, each with the handle returned
  loadCount,      \* per ImageProxy: real Images materialized by loadImage
  drawCount,      \* per ImageProxy: calls of its draw()
  elemCall        \* the last call made on an element, with its result

\* The CharacterFormatFactory and its caller.
factoryVars == <<formats, formatObjects, formatCalls>>

\* What rendering and inspecting elements leaves behind, besides the heap.
drawVars == <<loadCount, drawCount, elemCall>>

vars == <<heap, observers, notifications, currentState, cmds, undoStack,
          redoStack, iter, session, opLog, formats, formatObjects,
          formatCalls, loadCount, drawCount, elemCall>>

\* Element values before construction: what the caller hands to a constructor.
Paragraph(text) ==
  [kind |-> "Paragraph", text |-> text, rows |-> 0, cols |-> 0,
   children |-> <<>>, wrapped |-> NoElem, realImage |-> NoElem]

Image(path) ==
  [kind |-> "Image", text |-> path, rows |-> 0, cols |-> 0,
   children |-> <<>>, wrapped |-> NoElem, realImage |-> NoElem]

Table(r, c) ==
  [kind |-> "Table", text |-> "", rows |-> r, cols |-> c,
   children |-> <<>>, wrapped |-> NoElem, realImage |-> NoElem]

Section(name, kids) ==
  [kind |-> "Section", text |-> name, rows |-> 0, cols |-> 0,
   children |-> kids, wrapped |-> NoElem, realImage |-> NoElem]

BoldDecorator(inner) ==
  [kind |-> "Bold", text |-> "", rows |-> 0, cols |-> 0,
   children |-> <<>>, wrapped |-> inner, realImage |-> NoElem]

ItalicDecorator(inner) ==
  [kind |-> "Italic", text |-> "", rows |-> 0, cols |-> 0,
   children |-> <<>>, wrapped |-> inner, realImage |-> NoElem]

ImageProxy(path) ==
  [kind |-> "ImageProxy", text |-> path, rows |-> 0, cols |-> 0,
   children |-> <<>>, wrapped |-> NoElem, realImage |-> NoElem]

IsDecorator(node) == node.kind \in {"Bold", "Italic"}

\* Section::add: push_back on the children vector of Section s.
SectionAdd(h, s, el) == [h EXCEPT ![s].children = Append(@, el)]

\* Construction of an element value as objects of the heap: every node of the
\* value becomes a fresh object; the result is the new heap and the address of
\* the top object.
RECURSIVE Build(_, _)
RECURSIVE BuildAll(_, _, _)
BuildAll(h, ts, ids) ==
  IF ts = <<>> THEN [heap |-> h, ids |-> ids]
  ELSE LET r == Build(h, Head(ts))
       IN BuildAll(r.heap, Tail(ts), Append(ids, r.id))

Build(h, t) ==
  IF t.kind = "Section"
  THEN LET s  == Append(h, [t EXCEPT !.children = <<>>])
           id == Len(s)
           r  == BuildAll(s, t.children, <<>>)
       IN [heap |-> [r.heap EXCEPT ![id].children = r.ids], id |-> id]
  ELSE IF IsDecorator(t)
  THEN LET r == Build(h, t.wrapped)
       IN [heap |-> Append(r.heap, [t EXCEPT !.wrapped = r.id]),
           id |-> Len(r.heap) + 1]
  ELSE [heap |-> Append(h, t), id |-> Len(h) + 1]

\* Number of node objects an element value is made of.
RECURSIVE ValueSize(_)
RECURSIVE ValueSizeAll(_)
ValueSizeAll(ts) ==
  IF ts = <<>> THEN 0 ELSE ValueSize(Head(ts)) + ValueSizeAll(Tail(ts))

ValueSize(t) ==
  IF t.kind = "Section" THEN 1 + ValueSizeAll(t.children)
  ELSE IF IsDecorator(t) THEN 1 + ValueSize(t.wrapped)
  ELSE 1

\* Number of node objects of the subtree owned by object n (a loaded proxy
\* owns its real Image).
RECURSIVE SubtreeSize(_, _)
RECURSIVE SubtreeSizeAll(_, _)
SubtreeSizeAll(h, ids) ==
  IF ids = <<>> THEN 0
  ELSE SubtreeSize(h, Head(ids)) + SubtreeSizeAll(h, Tail(ids))

SubtreeSize(h, n) ==
  IF h[n].kind = "Section" THEN 1 + SubtreeSizeAll(h, h[n].children)
  ELSE IF IsDecorator(h[n]) THEN 1 + SubtreeSize(h, h[n].wrapped)
  ELSE IF h[n].realImage /= NoElem THEN 2
  ELSE 1

\* clone(): a new, independent subtree. Paragraph, Image and Table copy
\* themselves; a Section makes a new Section of the same name and adds a clone
\* of each child in order; a decorator rewraps a clone of its wrapped element;
\* an ImageProxy makes a new, unloaded proxy of the same path.
RECURSIVE Clone(_, _)
RECURSIVE CloneAll(_, _, _)

\* Mutant: the children are cloned last to first.
RECURSIVE CloneAllReversed(_, _, _)
CloneAllReversed(h, s, ids) ==
  IF ids = <<>> THEN h
  ELSE LET r == Clone(h, ids[Len(ids)])
       IN CloneAllReversed(SectionAdd(r.heap, s, r.id), s,
                           SubSeq(ids, 1, Len(ids) - 1))

\* Mutant: the new Section is given the children themselves, not clones.
RECURSIVE CloneAllShared(_, _, _)
CloneAllShared(h, s, ids) ==
  IF ids = <<>> THEN h
  ELSE CloneAllShared(SectionAdd(h, s, Head(ids)), s, Tail(ids))

CloneAll(h, s, ids) ==
  IF ids = <<>> THEN h
  ELSE LET r == Clone(h, Head(ids))
       IN CloneAll(SectionAdd(r.heap, s, r.id), s, Tail(ids))

Clone(h, n) ==
  IF h[n].kind = "Section"
  THEN LET s  == Append(h, Section(h[n].text, <<>>))
           id == Len(s)
       IN [heap |-> CloneAll(s, id, h[n].children), id |-> id]
  ELSE IF h[n].kind = "Bold"
  THEN LET r == Clone(h, h[n].wrapped)
       IN [heap |-> Append(r.heap, BoldDecorator(r.id)), id |-> Len(r.heap) + 1]
  ELSE IF h[n].kind = "Italic"
  THEN LET r == Clone(h, h[n].wrapped)
       IN [heap |-> Append(r.heap, ItalicDecorator(r.id)), id |-> Len(r.heap) + 1]
  ELSE IF h[n].kind = "ImageProxy"
  THEN [heap |-> Append(h, ImageProxy(h[n].text)), id |-> Len(h) + 1]
  ELSE [heap |-> Append(h, h[n]), id |-> Len(h) + 1]

\* ----------------------------------------------------------- the Document
\* StatusBar::countElements: every child counted, Sections entered.
RECURSIVE countElements(_, _), countElementsAll(_, _)
countElementsAll(h, ids) ==
  IF ids = <<>> THEN 0
  ELSE 1 + (IF h[Head(ids)].kind = "Section" THEN countElements(h, Head(ids)) ELSE 0)
         + countElementsAll(h, Tail(ids))

countElements(h, s) == countElementsAll(h, h[s].children)

\* StatusBar::onDocumentChanged(doc): the call received by observer o, with
\* what it reads from the document while it runs.
OnDocumentChanged(o, h) ==
  [observer |-> o, elementCount |-> countElements(h, Root),
   rootChildren |-> h[Root].children]

\* The ordinal of the next notifyObservers run that reaches an observer.
NextRun(log) == IF log = <<>> THEN 1 ELSE log[1].run + 1

\* Mutant: the observers are called last registered first.
NotifyObserversReversed(log, obs, h) ==
  IF obs = <<>> THEN log
  ELSE [i \in 1..Len(obs) |->
          [run |-> NextRun(log), call |-> OnDocumentChanged(obs[Len(obs) + 1 - i], h)]]

\* Document::notifyObservers: one onDocumentChanged per registration, in
\* registration order.  The calls of a run replace those of the run before.
NotifyObservers(log, obs, h) ==
  IF obs = <<>> THEN log
  ELSE [i \in 1..Len(obs) |->
          [run |-> NextRun(log), call |-> OnDocumentChanged(obs[i], h)]]

\* Document::attach: push_back, a second registration of one observer kept.
DocumentAttach(obs, o) == Append(obs, o)

\* Document::detach: erase-remove, every registration of the observer.
DocumentDetach(obs, o) == SelectSeq(obs, LAMBDA x : x /= o)

\* DocumentState::getStateName of the three states.
States == {"Draft", "Review", "Published"}

\* DocumentState::edit of the state named s: the notice it prints.
StateEdit(s) ==
  IF s = "Draft" THEN "[State] Editing in Draft mode - all changes allowed"
  ELSE IF s = "Review" THEN "[State] Document in Review - limited editing allowed"
  ELSE "[State] Document is Published - editing locked!"

\* Mutant: a Published document stays Published.
DocumentSetStateLocked(cur, s) == IF cur = "Published" THEN cur ELSE s

\* Document::setState: the state handed in replaces the current one.
DocumentSetState(cur, s) == s

\* Document::addElement on the heap: rootSection->add(element).
DocumentAddElement(h, el) == SectionAdd(h, Root, el)

RootChildren == heap[Root].children

\* ------------------------------------------------------- the edit history
\* AddElementCommand(doc, el): the command owns el; executed = false.
AddElementCommand(el) ==
  [element |-> el, clonedElement |-> NoElem, executed |-> FALSE,
   executeCalls |-> 0, undoCalls |-> 0]

\* AddElementCommand::execute. The result is the heap, the command and
\* whether Document::addElement was called.
CommandExecute(h, cmd) ==
  LET called == [cmd EXCEPT !.executeCalls = @ + 1]
  IN IF cmd.executed
     THEN [heap |-> h, cmd |-> called, added |-> FALSE]
     ELSE IF cmd.element /= NoElem
     THEN LET cl == Clone(h, cmd.element)
          IN [heap  |-> DocumentAddElement(cl.heap, cmd.element),
              cmd   |-> [called EXCEPT !.clonedElement = cl.id,
                                       !.element = NoElem,
                                       !.executed = TRUE],
              added |-> TRUE]
     ELSE IF cmd.clonedElement /= NoElem
     THEN LET cl == Clone(h, cmd.clonedElement)
          IN [heap  |-> DocumentAddElement(cl.heap, cl.id),
              cmd   |-> [called EXCEPT !.executed = TRUE],
              added |-> TRUE]
     ELSE [heap |-> h, cmd |-> [called EXCEPT !.executed = TRUE],
           added |-> FALSE]

\* AddElementCommand::undo: only the flag changes.
CommandUndo(cmd) == [cmd EXCEPT !.executed = FALSE, !.undoCalls = @ + 1]

\* Node objects one more execute() of the command would construct.
ExecuteCost(h, cmd) ==
  IF cmd.executed THEN 0
  ELSE IF cmd.element /= NoElem THEN SubtreeSize(h, cmd.element)
  ELSE IF cmd.clonedElement /= NoElem THEN SubtreeSize(h, cmd.clonedElement)
  ELSE 0

Top(stack) == stack[Len(stack)]
Pop(stack) == SubSeq(stack, 1, Len(stack) - 1)

\* The log of the last edit operations after one more, keeping the last
\* `keep` of them.
Logged(entry, keep) ==
  LET l == Append(opLog, entry)
  IN IF Len(l) > keep THEN Tail(l) ELSE l

LastOp ==
  IF opLog = <<>> THEN [op |-> "none", cmd |-> 0] ELSE opLog[Len(opLog)]

\* No command: undo() or redo() found its stack empty.
NoCmd == 0

\* Mutant: the redo stack is not cleared on a new command.
HistoryExecuteCommandKeepsRedo(u, r, c) ==
  [undoStack |-> Append(u, c), redoStack |-> r]

\* CommandHistory::executeCommand on the two stacks, after cmd->execute().
HistoryExecuteCommand(u, r, c) ==
  [undoStack |-> Append(u, c), redoStack |-> <<>>]

\* Mutant: the undone record is dropped instead of pushed on the redo stack.
HistoryUndoDropsRecord(u, r) ==
  IF u /= <<>>
  THEN [undoStack |-> Pop(u), redoStack |-> r]
  ELSE [undoStack |-> u, redoStack |-> r]

\* CommandHistory::undo on the two stacks.
HistoryUndo(u, r) ==
  IF u /= <<>>
  THEN [undoStack |-> Pop(u), redoStack |-> Append(r, Top(u))]
  ELSE [undoStack |-> u, redoStack |-> r]

\* Mutant: with nothing to redo, the top of the undo stack is pushed again.
HistoryRedoEmptyRepeatsTop(u, r) ==
  IF r /= <<>>
  THEN [undoStack |-> Append(u, Top(r)), redoStack |-> Pop(r)]
  ELSE IF u /= <<>>
  THEN [undoStack |-> Append(u, Top(u)), redoStack |-> r]
  ELSE [undoStack |-> u, redoStack |-> r]

\* CommandHistory::redo on the two stacks.
HistoryRedo(u, r) ==
  IF r /= <<>>
  THEN [undoStack |-> Append(u, Top(r)), redoStack |-> Pop(r)]
  ELSE [undoStack |-> u, redoStack |-> r]

\* The session after an edit of the document: an edit made between the first
\* and the last next() of a run is remembered until the next reset().
Edited(sess, it) ==
  IF it.built /\ 0 < it.position /\ it.position < Len(it.elements)
  THEN [sess EXCEPT !.editedMidRun = TRUE]
  ELSE sess

\* ------------------------------------------------------------------ inputs
\* Elements handed to the edit history and to Document::addElement.
HistoryElements ==
  { Paragraph("a b"),
    Image("photo.jpg"),
    Section("Chapter 1", <<Paragraph("c")>>) }

\* ------------------------------------------------------------------- Init
\* Document::Document(): an empty root Section named "Root", state Draft, no
\* observers; CommandHistory: both stacks empty.
Init ==
  /\ heap = <<Section("Root", <<>>)>>
  /\ observers = <<>>
  /\ notifications = <<>>
  /\ currentState = "Draft"
  /\ cmds = <<>>
  /\ undoStack = <<>>
  /\ redoStack = <<>>
  /\ iter = [built |-> FALSE, elements |-> <<>>, position |-> 0]
  /\ session = [snapshot |-> <<>>, nodes |-> 0, logical |-> 0, run |-> <<>>,
                extra |-> 0, completed |-> 0, firstRun |-> <<>>,
                editedMidRun |-> FALSE, visited |-> <<>>,
                last |-> [op |-> "none"]]
  /\ opLog = <<>>
  /\ formats = <<>>
  /\ formatObjects = <<>>
  /\ formatCalls = <<>>
  /\ loadCount = <<>>
  /\ drawCount = <<>>
  /\ elemCall = [op |-> "none"]

\* ---------------------------------------------------------------- actions
\* doc->addElement(element) with a freshly constructed element.
AddElement(t, lim) ==
  /\ Len(heap) + ValueSize(t) <= lim.nodes
  /\ LET b == Build(heap, t)
     IN /\ heap' = DocumentAddElement(b.heap, b.id)
        /\ opLog' = Logged([op |-> "addElement", cmd |-> NoCmd, element |-> b.id], lim.log)
  /\ notifications' = NotifyObservers(notifications, observers, heap')
  /\ session' = Edited(session, iter)
  /\ UNCHANGED <<factoryVars, drawVars, observers, currentState, cmds, undoStack, redoStack, iter>>

\* history.executeCommand(make_unique<AddElementCommand>(doc, element)).
ExecuteCommand(t, lim) ==
  /\ Len(heap) + 2 * ValueSize(t) <= lim.nodes
  /\ LET b == Build(heap, t)
         c == Len(cmds) + 1
         x == CommandExecute(b.heap, AddElementCommand(b.id))
         s == HistoryExecuteCommand(undoStack, redoStack, c)
     IN /\ heap' = x.heap
        /\ cmds' = Append(cmds, x.cmd)
        /\ notifications' =
             IF x.added THEN NotifyObservers(notifications, observers, x.heap)
             ELSE notifications
        /\ undoStack' = s.undoStack
        /\ redoStack' = s.redoStack
        /\ opLog' = Logged([op |-> "executeCommand", cmd |-> c,
                            element |-> b.id,
                            rootLen |-> Len(RootChildren),
                            redoBefore |-> redoStack], lim.log)
  /\ session' = Edited(session, iter)
  /\ UNCHANGED <<factoryVars, drawVars, observers, currentState, iter>>

\* Mutant: undo takes the last child off the root and notifies the observers.
UndoRemovesElement(lim) ==
  LET c == IF undoStack /= <<>> THEN Top(undoStack) ELSE NoCmd
      s == HistoryUndo(undoStack, redoStack)
  IN /\ undoStack' = s.undoStack
     /\ redoStack' = s.redoStack
     /\ cmds' = IF c /= NoCmd THEN [cmds EXCEPT ![c] = CommandUndo(@)] ELSE cmds
     /\ heap' = IF c /= NoCmd /\ RootChildren /= <<>>
                THEN [heap EXCEPT ![Root].children = Pop(@)] ELSE heap
     /\ notifications' = IF c /= NoCmd
                         THEN NotifyObservers(notifications, observers, heap')
                         ELSE notifications
     /\ opLog' = Logged([op |-> "undo", cmd |-> c,
                         undoBefore |-> undoStack, redoBefore |-> redoStack], lim.log)
     /\ session' = Edited(session, iter)
     /\ UNCHANGED <<factoryVars, drawVars, observers, currentState, iter>>

\* history.undo().
Undo(lim) ==
  LET c == IF undoStack /= <<>> THEN Top(undoStack) ELSE NoCmd
      s == HistoryUndo(undoStack, redoStack)
  IN /\ undoStack' = s.undoStack
     /\ redoStack' = s.redoStack
     /\ cmds' = IF c /= NoCmd THEN [cmds EXCEPT ![c] = CommandUndo(@)] ELSE cmds
     /\ opLog' = Logged([op |-> "undo", cmd |-> c,
                         undoBefore |-> undoStack, redoBefore |-> redoStack], lim.log)
     /\ session' = Edited(session, iter)
     /\ UNCHANGED <<factoryVars, drawVars, heap, observers, notifications, currentState, iter>>

\* history.redo().
Redo(lim) ==
  LET c == IF redoStack /= <<>> THEN Top(redoStack) ELSE NoCmd
      s == HistoryRedo(undoStack, redoStack)
  IN /\ c /= NoCmd => Len(heap) + ExecuteCost(heap, cmds[c]) <= lim.nodes
     /\ undoStack' = s.undoStack
     /\ redoStack' = s.redoStack
     /\ IF c /= NoCmd
        THEN LET x == CommandExecute(heap, cmds[c])
             IN /\ heap' = x.heap
                /\ cmds' = [cmds EXCEPT ![c] = x.cmd]
                /\ notifications' =
                     IF x.added THEN NotifyObservers(notifications, observers, x.heap)
                     ELSE notifications
        ELSE UNCHANGED <<factoryVars, drawVars, heap, cmds, notifications>>
     /\ opLog' = Logged([op |-> "redo", cmd |-> c,
                         rootLen |-> Len(RootChildren)], lim.log)
     /\ session' = Edited(session, iter)
     /\ UNCHANGED <<factoryVars, drawVars, observers, currentState, iter>>

\* The edit-history specification: its node budget, and the three last edit
\* operations logged.
HistoryLimits == [nodes |-> MaxNodes, log |-> 3]

NextHistory ==
  \/ \E t \in HistoryElements : AddElement(t, HistoryLimits)
  \/ \E t \in HistoryElements : ExecuteCommand(t, HistoryLimits)
  \/ Undo(HistoryLimits)
  \/ Redo(HistoryLimits)

\* The edit history over a Document.
SpecHistory == Init /\ [][NextHistory]_vars

\* ----------------------------------------------------- DocumentIterator
\* DocumentIterator::collectElements: each child of the Section is pushed,
\* and entered right after when the child itself is a Section object (the
\* dynamic_cast<Section*> fails on a decorator, whatever it wraps).
RECURSIVE CollectElements(_, _, _)
RECURSIVE CollectChildren(_, _, _)
CollectChildren(h, kids, acc) ==
  IF kids = <<>> THEN acc
  ELSE LET child  == Head(kids)
           pushed == Append(acc, child)
           below  == IF h[child].kind = "Section"
                     THEN CollectElements(h, child, pushed)
                     ELSE pushed
       IN CollectChildren(h, Tail(kids), below)

CollectElements(h, s, acc) == CollectChildren(h, h[s].children, acc)

\* DocumentIterator(doc): position 0, elements collected from the root.
DocumentIterator(h) ==
  [built |-> TRUE, elements |-> CollectElements(h, Root, <<>>), position |-> 0]

\* Mutant: the iterator reads the live tree instead of its own vector.
IteratorElementsLive(it, h) == CollectElements(h, Root, <<>>)

\* The vector the iterator reads: its own elements member.
IteratorElements(it, h) == it.elements

\* DocumentIterator::hasNext.
HasNext(it, h) == it.position < Len(IteratorElements(it, h))

\* Mutant: next() advances the cursor although nothing is left.
IteratorNextAlwaysAdvances(it, h) ==
  IF HasNext(it, h)
  THEN [iter   |-> [it EXCEPT !.position = @ + 1],
        result |-> IteratorElements(it, h)[it.position + 1]]
  ELSE [iter |-> [it EXCEPT !.position = @ + 1], result |-> NoElem]

\* DocumentIterator::next: elements[position++], or nullptr when exhausted.
IteratorNext(it, h) ==
  IF HasNext(it, h)
  THEN [iter   |-> [it EXCEPT !.position = @ + 1],
        result |-> IteratorElements(it, h)[it.position + 1]]
  ELSE [iter |-> it, result |-> NoElem]

\* Mutant: reset() rewinds to the second element.
IteratorResetSkipsFirst(it) ==
  [it EXCEPT !.position = IF it.elements = <<>> THEN 0 ELSE 1]

\* DocumentIterator::reset.
IteratorReset(it) == [it EXCEPT !.position = 0]

\* Node objects of the tree under node n, n included.
RECURSIVE TreeNodeCount(_, _)
RECURSIVE TreeNodeCountAll(_, _)
TreeNodeCountAll(h, ids) ==
  IF ids = <<>> THEN 0
  ELSE TreeNodeCount(h, Head(ids)) + TreeNodeCountAll(h, Tail(ids))

TreeNodeCount(h, n) ==
  IF h[n].kind = "Section" THEN 1 + TreeNodeCountAll(h, h[n].children)
  ELSE IF IsDecorator(h[n]) THEN 1 + TreeNodeCount(h, h[n].wrapped)
  ELSE 1

\* The same count with a decorator and the element it wraps taken as one node.
RECURSIVE LogicalNodeCount(_, _)
RECURSIVE LogicalNodeCountAll(_, _)
LogicalNodeCountAll(h, ids) ==
  IF ids = <<>> THEN 0
  ELSE LogicalNodeCount(h, Head(ids)) + LogicalNodeCountAll(h, Tail(ids))

LogicalNodeCount(h, n) ==
  IF h[n].kind = "Section" THEN 1 + LogicalNodeCountAll(h, h[n].children)
  ELSE IF IsDecorator(h[n]) THEN LogicalNodeCount(h, h[n].wrapped)
  ELSE 1

\* The node objects of the tree under node n, n included.
RECURSIVE TreeNodes(_, _)
TreeNodes(h, n) ==
  {n} \cup
  IF h[n].kind = "Section"
  THEN UNION { TreeNodes(h, h[n].children[i]) : i \in 1..Len(h[n].children) }
  ELSE IF IsDecorator(h[n]) THEN TreeNodes(h, h[n].wrapped)
  ELSE {}

\* The Section objects of the document tree other than the root.
InnerSections ==
  { n \in TreeNodes(heap, Root) \ {Root} : heap[n].kind = "Section" }

\* Elements handed to the document while an iterator is in use.
IteratorElementValues ==
  { Paragraph("a b"),
    Table(2, 3),
    ImageProxy("photo.jpg"),
    Section("Chapter 1", <<Paragraph("c")>>),
    ItalicDecorator(Paragraph("Italic text")),
    BoldDecorator(Section("Boxed", <<Image("photo.jpg")>>)) }

\* Elements handed to Section::add and to an AddElementCommand while an
\* iterator is in use.
IteratorLeafValues == { Paragraph("a b") }

\* accept(visitor) of node n: the visitor methods called, each with the node
\* it is called on. A decorator forwards to what it wraps.
RECURSIVE Accept(_, _)
RECURSIVE AcceptAll(_, _)
AcceptAll(h, kids) ==
  IF kids = <<>> THEN <<>>
  ELSE Accept(h, Head(kids)) \o AcceptAll(h, Tail(kids))

Accept(h, n) ==
  CASE h[n].kind = "Paragraph" -> <<[visit |-> "visitParagraph", node |-> n]>>
    [] h[n].kind = "Image" -> <<[visit |-> "visitImage", node |-> n]>>
    [] h[n].kind = "Table" -> <<[visit |-> "visitTable", node |-> n]>>
    [] h[n].kind = "ImageProxy" -> <<[visit |-> "visitImageProxy", node |-> n]>>
    [] h[n].kind = "Section" ->
         <<[visit |-> "visitSection", node |-> n]>> \o AcceptAll(h, h[n].children)
    [] IsDecorator(h[n]) -> Accept(h, h[n].wrapped)

\* DocumentIterator iterator(doc).
IteratorNew ==
  /\ ~iter.built
  /\ iter' = DocumentIterator(heap)
  /\ session' = [session EXCEPT
                   !.snapshot = CollectElements(heap, Root, <<>>),
                   !.nodes = TreeNodeCount(heap, Root) - 1,
                   !.logical = LogicalNodeCount(heap, Root) - 1,
                   !.visited = Accept(heap, Root),
                   !.last = [op |-> "DocumentIterator"]]
  /\ UNCHANGED <<factoryVars, drawVars, heap, observers, notifications, currentState, cmds,
                 undoStack, redoStack, opLog>>

\* iterator.next(). A full run is complete when the call that returned an
\* element leaves hasNext() false.
IteratorNextCall ==
  /\ iter.built
  /\ HasNext(iter, heap) \/ session.extra < MaxExtraNext
  /\ LET r    == IteratorNext(iter, heap)
         run  == IF r.result /= NoElem THEN Append(session.run, r.result)
                 ELSE session.run
         done == r.result /= NoElem /\ ~HasNext(r.iter, heap)
     IN /\ iter' = r.iter
        /\ session' =
             [session EXCEPT
                !.run = run,
                !.extra = IF r.result = NoElem THEN @ + 1 ELSE @,
                !.completed = IF done /\ @ < 2 THEN @ + 1 ELSE @,
                !.firstRun = IF done /\ session.completed = 0 THEN run ELSE @,
                !.last = [op |-> "next", result |-> r.result]]
  /\ UNCHANGED <<factoryVars, drawVars, heap, observers, notifications, currentState, cmds,
                 undoStack, redoStack, opLog>>

\* iterator.reset().
IteratorResetCall ==
  /\ iter.built
  /\ iter' = IteratorReset(iter)
  /\ session' = [session EXCEPT
                   !.run = <<>>, !.extra = 0, !.editedMidRun = FALSE,
                   !.last = [op |-> "reset", positionBefore |-> iter.position,
                             extraBefore |-> session.extra]]
  /\ UNCHANGED <<factoryVars, drawVars, heap, observers, notifications, currentState, cmds,
                 undoStack, redoStack, opLog>>

\* section->add(element) on a Section already in the document.
SectionAddCall(s, t, lim) ==
  /\ Len(heap) + ValueSize(t) <= lim.nodes
  /\ LET b == Build(heap, t)
     IN /\ heap' = SectionAdd(b.heap, s, b.id)
        /\ opLog' = Logged([op |-> "Section::add", cmd |-> NoCmd,
                            element |-> b.id], lim.log)
  /\ session' = Edited(session, iter)
  /\ UNCHANGED <<factoryVars, drawVars, observers, notifications, currentState, cmds, undoStack,
                 redoStack, iter>>

\* The iterator specification: its node budget, and the last edit operation
\* logged.
IteratorLimits == [nodes |-> MaxIterNodes, log |-> 1]

NextIterator ==
  \/ \E t \in IteratorElementValues : AddElement(t, IteratorLimits)
  \/ \E s \in InnerSections : \E t \in IteratorLeafValues :
       SectionAddCall(s, t, IteratorLimits)
  \/ \E t \in IteratorLeafValues : ExecuteCommand(t, IteratorLimits)
  \/ Undo(IteratorLimits)
  \/ Redo(IteratorLimits)
  \/ IteratorNew
  \/ IteratorNextCall
  \/ IteratorResetCall

\* A DocumentIterator over a Document that keeps being edited.
SpecIterator == Init /\ [][NextIterator]_vars

\* ----------------------------------------------- CharacterFormatFactory
\* std::to_string of an int.
Digit(d) ==
  CASE d = 0 -> "0" [] d = 1 -> "1" [] d = 2 -> "2" [] d = 3 -> "3"
    [] d = 4 -> "4" [] d = 5 -> "5" [] d = 6 -> "6" [] d = 7 -> "7"
    [] d = 8 -> "8" [] d = 9 -> "9"

RECURSIVE to_string(_)
to_string(n) ==
  IF n < 0 THEN "-" \o to_string(0 - n)
  ELSE IF n < 10 THEN Digit(n)
  ELSE to_string(n \div 10) \o Digit(n % 10)

\* CharacterFormatFactory::getKey.
GetKey(font, size, color) == font \o "_" \o to_string(size) \o "_" \o color

\* CharacterFormatFactory::getFormat on the map and the objects made: the
\* map after the call, the objects after the call and the handle returned.
GetFormat(map, objs, font, size, color) ==
  LET key == GetKey(font, size, color)
  IN IF key \notin DOMAIN map
     THEN LET made == Append(objs, [fontName |-> font, fontSize |-> size,
                                   color |-> color])
          IN [formats |-> (key :> Len(made)) @@ map, objects |-> made,
              handle |-> Len(made)]
     ELSE [formats |-> map, objects |-> objs, handle |-> map[key]]

\* Font names, sizes and colours handed to getFormat.
FontNames == { "Arial", "Arial_12" }
FontSizes == { 12, 14 }
Colors == { "Black", "12_Black" }

\* formatFactory.getFormat(font, size, color).
GetFormatCall(font, size, color) ==
  /\ Len(formatCalls) < MaxFormatCalls
  /\ LET r == GetFormat(formats, formatObjects, font, size, color)
     IN /\ formats' = r.formats
        /\ formatObjects' = r.objects
        /\ formatCalls' = Append(formatCalls,
                                 [font |-> font, size |-> size,
                                  color |-> color, handle |-> r.handle])
  /\ UNCHANGED <<drawVars, heap, observers, notifications, currentState,
                 cmds, undoStack, redoStack, iter, session, opLog>>

NextFormat ==
  \E font \in FontNames : \E size \in FontSizes : \E color \in Colors :
    GetFormatCall(font, size, color)

\* One CharacterFormatFactory and the calls made on it.
SpecFormat == Init /\ [][NextFormat]_vars

\* ------------------------------------------------ rendering and visiting
\* The IRenderer calls.
RenderText(text, bold, italic) ==
  [call |-> "renderText", text |-> text, bold |-> bold, italic |-> italic]
RenderImage(path) == [call |-> "renderImage", path |-> path]
RenderTable(rows, cols) == [call |-> "renderTable", rows |-> rows, cols |-> cols]
StartSection == [call |-> "startSection"]
EndSection == [call |-> "endSection"]

\* Mutant: loadImage makes a new Image on every call.
LoadImageEveryTime(h, p) ==
  [heap   |-> [Append(h, Image(h[p].text)) EXCEPT ![p].realImage = Len(h) + 1],
   loaded |-> <<p>>]

\* ImageProxy::loadImage: the real Image is made only while realImage is null.
LoadImage(h, p) ==
  IF h[p].realImage = NoElem
  THEN [heap   |-> [Append(h, Image(h[p].text)) EXCEPT ![p].realImage = Len(h) + 1],
        loaded |-> <<p>>]
  ELSE [heap |-> h, loaded |-> <<>>]

\* draw(renderer) of node n: the heap after it, the renderer calls made, the
\* proxies whose draw() ran and the proxies that materialized their Image.
RECURSIVE Draw(_, _)
RECURSIVE DrawAll(_, _, _)
DrawAll(h, kids, acc) ==
  IF kids = <<>> THEN [acc EXCEPT !.heap = h]
  ELSE LET r == Draw(h, Head(kids))
       IN DrawAll(r.heap, Tail(kids),
                  [heap   |-> r.heap,
                   out    |-> acc.out \o r.out,
                   drawn  |-> acc.drawn \o r.drawn,
                   loaded |-> acc.loaded \o r.loaded])

Draw(h, n) ==
  LET node == h[n]
      Leaf(call) == [heap |-> h, out |-> <<call>>, drawn |-> <<>>,
                     loaded |-> <<>>]
  IN CASE node.kind = "Paragraph" -> Leaf(RenderText(node.text, FALSE, FALSE))
       [] node.kind = "Image" -> Leaf(RenderImage(node.text))
       [] node.kind = "Table" -> Leaf(RenderTable(node.rows, node.cols))
       [] node.kind = "Section" ->
            LET r == DrawAll(h, node.children,
                             [heap |-> h, out |-> <<StartSection>>,
                              drawn |-> <<>>, loaded |-> <<>>])
            IN [r EXCEPT !.out = Append(@, EndSection)]
       [] node.kind = "Bold" ->
            IF h[node.wrapped].kind = "Paragraph"
            THEN Leaf(RenderText(h[node.wrapped].text, TRUE, FALSE))
            ELSE Draw(h, node.wrapped)
       [] node.kind = "Italic" ->
            IF h[node.wrapped].kind = "Paragraph"
            THEN Leaf(RenderText(h[node.wrapped].text, FALSE, TRUE))
            ELSE Draw(h, node.wrapped)
       [] node.kind = "ImageProxy" ->
            LET l == LoadImage(h, n)
                r == Draw(l.heap, l.heap[n].realImage)
            IN [heap |-> r.heap, out |-> r.out, drawn |-> <<n>>,
                loaded |-> l.loaded]

\* Mutant: a decorator reports its own kind.
GetTypeOwn(h, n) == h[n].kind

\* getType() of node n.
RECURSIVE GetType(_, _)
GetType(h, n) ==
  IF IsDecorator(h[n]) THEN GetType(h, h[n].wrapped) ELSE h[n].kind

\* Events counted per proxy.
Count(f, p) == IF p \in DOMAIN f THEN f[p] ELSE 0

RECURSIVE Counted(_, _)
Counted(f, ps) ==
  IF ps = <<>> THEN f
  ELSE Counted((Head(ps) :> (Count(f, Head(ps)) + 1)) @@ f, Tail(ps))

\* The elements a caller can hold: the nodes of the document tree and the
\* clones made of them, but no real Image inside a proxy.
Elements ==
  { n \in 1..Len(heap) :
      \A p \in 1..Len(heap) : heap[p].realImage /= n }

\* The ImageProxy objects.
Proxies == { n \in 1..Len(heap) : heap[n].kind = "ImageProxy" }

\* The proxies whose draw() a draw of node n reaches.
RECURSIVE ProxiesUnder(_, _)
ProxiesUnder(h, n) ==
  IF h[n].kind = "ImageProxy" THEN {n}
  ELSE IF h[n].kind = "Section"
  THEN UNION { ProxiesUnder(h, h[n].children[i]) : i \in 1..Len(h[n].children) }
  ELSE IF IsDecorator(h[n]) /\ h[h[n].wrapped].kind /= "Paragraph"
  THEN ProxiesUnder(h, h[n].wrapped)
  ELSE {}

\* The renderers.
Renderers == { "ConsoleRenderer", "HTMLRenderer" }

\* Elements handed to the document to be rendered.
DrawElementValues ==
  { ImageProxy("photo.jpg"),
    BoldDecorator(ImageProxy("logo.png")),
    Paragraph("a b") }

\* element->draw(renderer); the root's draw is doc->draw(renderer).
ElementDraw(n, renderer, lim) ==
  /\ \A p \in ProxiesUnder(heap, n) : Count(drawCount, p) < MaxDraws
  /\ LET r == Draw(heap, n)
     IN /\ Len(r.heap) <= lim.nodes
        /\ heap' = r.heap
        /\ drawCount' = Counted(drawCount, r.drawn)
        /\ loadCount' = Counted(loadCount, r.loaded)
        /\ elemCall' = [op |-> "draw", node |-> n, renderer |-> renderer,
                        result |-> r.out]
  /\ UNCHANGED <<factoryVars, observers, notifications, currentState, cmds,
                 undoStack, redoStack, iter, session, opLog>>

\* element->accept(visitor).
ElementAccept(n) ==
  /\ elemCall' = [op |-> "accept", node |-> n, result |-> Accept(heap, n)]
  /\ UNCHANGED <<factoryVars, heap, loadCount, drawCount, observers,
                 notifications, currentState, cmds, undoStack, redoStack,
                 iter, session, opLog>>

\* element->getType().
ElementGetType(n) ==
  /\ elemCall' = [op |-> "getType", node |-> n, result |-> GetType(heap, n)]
  /\ UNCHANGED <<factoryVars, heap, loadCount, drawCount, observers,
                 notifications, currentState, cmds, undoStack, redoStack,
                 iter, session, opLog>>

\* element->clone(): the clone is a new element held by the caller.
ElementClone(n, lim) ==
  /\ LET r == Clone(heap, n)
     IN /\ Len(r.heap) <= lim.nodes
        /\ heap' = r.heap
        /\ elemCall' = [op |-> "clone", node |-> n, result |-> r.id]
  /\ UNCHANGED <<factoryVars, loadCount, drawCount, observers, notifications,
                 currentState, cmds, undoStack, redoStack, iter, session,
                 opLog>>

\* The rendering specification: its node budget; the last edit logged.
DrawLimits == [nodes |-> MaxDrawNodes, log |-> 1]

NextDraw ==
  \/ \E t \in DrawElementValues : AddElement(t, DrawLimits)
  \/ \E n \in Elements : \E r \in Renderers : ElementDraw(n, r, DrawLimits)
  \/ \E n \in Elements : ElementAccept(n)
  \/ \E n \in Elements : ElementGetType(n)
  \/ \E n \in Elements : ElementClone(n, DrawLimits)

\* Elements of a Document rendered, visited, inspected and cloned.
SpecDraw == Init /\ [][NextDraw]_vars

\* ------------------------------------------- the Document's life cycle
\* The StatusBar objects a caller may register.
ObserverIds == {1, 2}

\* doc->attach(&statusBar).
Attach(o, lim) ==
  /\ Len(observers) < MaxObservers
  /\ observers' = DocumentAttach(observers, o)
  /\ opLog' = Logged([op |-> "attach", cmd |-> NoCmd, observer |-> o], lim.log)
  /\ UNCHANGED <<factoryVars, drawVars, heap, notifications, currentState, cmds,
                 undoStack, redoStack, iter, session>>

\* doc->detach(&statusBar).
Detach(o, lim) ==
  /\ observers' = DocumentDetach(observers, o)
  /\ opLog' = Logged([op |-> "detach", cmd |-> NoCmd, observer |-> o], lim.log)
  /\ UNCHANGED <<factoryVars, drawVars, heap, notifications, currentState, cmds,
                 undoStack, redoStack, iter, session>>

\* Mutant: setState also runs notifyObservers.
SetStateCallNotifies(s, lim) ==
  /\ currentState' = DocumentSetState(currentState, s)
  /\ notifications' = NotifyObservers(notifications, observers, heap)
  /\ opLog' = Logged([op |-> "setState", cmd |-> NoCmd, from |-> currentState,
                      state |-> s], lim.log)
  /\ UNCHANGED <<factoryVars, drawVars, heap, observers, cmds,
                 undoStack, redoStack, iter, session>>

\* doc->setState(make_unique<S>()).
SetStateCall(s, lim) ==
  /\ currentState' = DocumentSetState(currentState, s)
  /\ opLog' = Logged([op |-> "setState", cmd |-> NoCmd, from |-> currentState,
                      state |-> s], lim.log)
  /\ UNCHANGED <<factoryVars, drawVars, heap, observers, notifications, cmds,
                 undoStack, redoStack, iter, session>>

\* doc->edit(): currentState->edit(this).
EditCall(lim) ==
  /\ opLog' = Logged([op |-> "edit", cmd |-> NoCmd, in |-> currentState,
                      notice |-> StateEdit(currentState)], lim.log)
  /\ UNCHANGED <<factoryVars, drawVars, heap, observers, notifications, currentState,
                 cmds, undoStack, redoStack, iter, session>>

\* Elements handed to the observed document.
DocumentElementValues ==
  { Paragraph("a b"), Section("Chapter 1", <<>>) }

\* The document specification: its node budget, and the last operation
\* logged.
DocumentLimits == [nodes |-> MaxDocNodes, log |-> 1]

NextDocument ==
  \/ \E o \in ObserverIds : Attach(o, DocumentLimits)
  \/ \E o \in ObserverIds : Detach(o, DocumentLimits)
  \/ \E s \in States : SetStateCall(s, DocumentLimits)
  \/ EditCall(DocumentLimits)
  \/ \E t \in DocumentElementValues : AddElement(t, DocumentLimits)
  \/ \E s \in InnerSections : \E t \in IteratorLeafValues :
       SectionAddCall(s, t, DocumentLimits)
  \/ \E t \in IteratorLeafValues : ExecuteCommand(t, DocumentLimits)
  \/ Undo(DocumentLimits)
  \/ Redo(DocumentLimits)

\* An observed Document that changes state and is edited.
SpecDocument == Init /\ [][NextDocument]_vars

\* The life-cycle specification: the document's node budget, and the two last
\* operations logged.
LifecycleLimits == [nodes |-> MaxDocNodes, log |-> 2]

NextLifecycle ==
  \/ \E s \in States : SetStateCall(s, LifecycleLimits)
  \/ EditCall(LifecycleLimits)
  \/ \E t \in DocumentElementValues : AddElement(t, LifecycleLimits)

\* A Document whose state is set and whose edit() is called between additions.
SpecLifecycle == Init /\ [][NextLifecycle]_vars

\* ----------------------------------------------------------------- cloning
\* The Sections a caller can hold: the root, those under it, and the clones.
Sections == { n \in Elements : heap[n].kind = "Section" }

\* Elements handed to the document to be cloned.
CloneElementValues ==
  { Section("Chapter 1", <<Paragraph("a b"), ImageProxy("photo.jpg")>>),
    BoldDecorator(Paragraph("c")),
    ItalicDecorator(Table(2, 3)) }

\* The cloning specification: its node budget; the last edit logged.
CloneLimits == [nodes |-> MaxCloneNodes, log |-> 1]

NextClone ==
  \/ \E t \in CloneElementValues : AddElement(t, CloneLimits)
  \/ \E r \in Renderers : ElementDraw(Root, r, CloneLimits)
  \/ \E n \in Elements : ElementClone(n, CloneLimits)
  \/ \E s \in Sections : \E t \in IteratorLeafValues :
       SectionAddCall(s, t, CloneLimits)

\* Elements of a Document cloned, the clones and the originals drawn and
\* added to.
SpecClone == Init /\ [][NextClone]_vars

\* ---------------------------------------------------------------- visiting
\* XMLExportVisitor::indent: spaces per level of depth.
IndentWidth == 2

\* XMLExportVisitor(): depth 0, the XML declaration written.
XMLExportVisitor ==
  [xml |-> <<[indent |-> 0, tag |-> "<?xml", node |-> NoElem]>>, depth |-> 0]

\* The line a visit method writes at the visitor's depth.
XmlLine(v, tag, n) ==
  [indent |-> v.depth * IndentWidth, tag |-> tag, node |-> n]

\* The visit method of XMLExportVisitor that call c names, run on visitor v:
\* one line each; visitSection then increments depth, and nothing
\* decrements it.
XmlVisit(v, c) ==
  CASE c.visit = "visitParagraph" ->
         [v EXCEPT !.xml = Append(@, XmlLine(v, "<paragraph>", c.node))]
    [] c.visit = "visitImage" ->
         [v EXCEPT !.xml = Append(@, XmlLine(v, "<image", c.node))]
    [] c.visit = "visitTable" ->
         [v EXCEPT !.xml = Append(@, XmlLine(v, "<table />", c.node))]
    [] c.visit = "visitImageProxy" ->
         [v EXCEPT !.xml = Append(@, XmlLine(v, "<image-proxy />", c.node))]
    [] c.visit = "visitSection" ->
         [v EXCEPT !.xml = Append(@, XmlLine(v, "<section>", c.node)),
                   !.depth = @ + 1]

\* The visitor after the visit calls of one accept, in call order.
RECURSIVE XmlVisitAll(_, _)
XmlVisitAll(v, calls) ==
  IF calls = <<>> THEN v
  ELSE XmlVisitAll(XmlVisit(v, Head(calls)), Tail(calls))

\* XMLExportVisitor x; section->accept(&x); x.getXML().
ExportXML(n) ==
  /\ elemCall' = [op |-> "exportXML", node |-> n,
                  calls |-> Accept(heap, n),
                  result |-> XmlVisitAll(XMLExportVisitor, Accept(heap, n)).xml]
  /\ UNCHANGED <<factoryVars, heap, loadCount, drawCount, observers,
                 notifications, currentState, cmds, undoStack, redoStack,
                 iter, session, opLog>>

\* Elements handed to the document to be inspected and exported.
VisitElementValues ==
  { Paragraph("a b"),
    Section("Chapter 1", <<Paragraph("c")>>),
    BoldDecorator(Paragraph("Bold text")),
    ItalicDecorator(ImageProxy("photo.jpg")),
    Image("logo.png") }

\* The visiting specification: its node budget; the last edit logged.
VisitLimits == [nodes |-> MaxVisitNodes, log |-> 1]

NextVisit ==
  \/ \E t \in VisitElementValues : AddElement(t, VisitLimits)
  \/ \E s \in InnerSections : \E t \in IteratorLeafValues :
       SectionAddCall(s, t, VisitLimits)
  \/ \E n \in Elements : ElementGetType(n)
  \/ \E n \in Elements : ElementAccept(n)
  \/ \E n \in Sections : ExportXML(n)

\* Elements of a Document inspected, visited and exported as XML.
SpecVisit == Init /\ [][NextVisit]_vars

\* ------------------------------------------------------- claims C1 .. C4
Range(seq) == { seq[i] : i \in 1..Len(seq) }

\* The last three operations were executeCommand(add X), undo(), redo() on
\* the same record.
ExecUndoRedo ==
  /\ Len(opLog) = 3
  /\ opLog[1].op = "executeCommand"
  /\ opLog[2].op = "undo" /\ opLog[2].cmd = opLog[1].cmd
  /\ opLog[3].op = "redo" /\ opLog[3].cmd = opLog[1].cmd

\* C1: after executeCommand(add X), undo(), redo() the root Section has
\* exactly one more child than before the executeCommand: X is in the tree
\* once, not twice.
C1_ExecUndoRedoAddsOnce ==
  ExecUndoRedo => Len(RootChildren) = opLog[1].rootLen + 1

\* C2: executeCommand(record) runs the record's execute() exactly once, which
\* appends the record's element to the root; the record ends on top of the
\* undo sequence, above every record already there, and the redo sequence
\* ends empty.
C2_ExecuteCommandPushesAndClearsRedo ==
  [][ LastOp'.op = "executeCommand" =>
        LET c == LastOp'.cmd
        IN /\ c \notin Range(undoStack) \cup Range(redoStack)
           /\ undoStack' = Append(undoStack, c)
           /\ redoStack' = <<>>
           /\ cmds'[c].executeCalls = 1
           /\ cmds'[c].executed
           /\ heap'[Root].children = Append(RootChildren, LastOp'.element)
    ]_vars

\* C2 witness: an executeCommand issued with records on both sequences.
C2_Witness ==
  /\ LastOp.op = "executeCommand"
  /\ LastOp.redoBefore /= <<>>
  /\ Len(undoStack) >= 2

\* C3: undo() with a non-empty undo sequence moves exactly its top record
\* to the top of the redo sequence and reverts it; redo() with a non-empty
\* redo sequence moves exactly its top record to the top of the undo
\* sequence and re-applies it; undo() directly followed by redo() restores
\* both sequences.
C3_UndoRedoMoveTopRecord ==
  [][ /\ (LastOp'.op = "undo" /\ undoStack /= <<>>) =>
           /\ LastOp'.cmd = Top(undoStack)
           /\ undoStack' = Pop(undoStack)
           /\ redoStack' = Append(redoStack, Top(undoStack))
           /\ ~cmds'[Top(undoStack)].executed
           /\ cmds'[Top(undoStack)].undoCalls
                = cmds[Top(undoStack)].undoCalls + 1
           /\ \A c \in 1..Len(cmds) : c /= Top(undoStack) => cmds'[c] = cmds[c]
      /\ (LastOp'.op = "redo" /\ redoStack /= <<>>) =>
           /\ LastOp'.cmd = Top(redoStack)
           /\ redoStack' = Pop(redoStack)
           /\ undoStack' = Append(undoStack, Top(redoStack))
           /\ cmds'[Top(redoStack)].executed
           /\ cmds'[Top(redoStack)].executeCalls
                = cmds[Top(redoStack)].executeCalls + 1
           /\ \A c \in 1..Len(cmds) : c /= Top(redoStack) => cmds'[c] = cmds[c]
      /\ (LastOp.op = "undo" /\ LastOp.cmd /= NoCmd /\ LastOp'.op = "redo") =>
           /\ undoStack' = LastOp.undoBefore
           /\ redoStack' = LastOp.redoBefore
    ]_vars

\* C3 witness: two undo() calls and then a redo(), which pops a redo
\* sequence of two records and leaves one record on each sequence.
C3_Witness ==
  /\ Len(opLog) = 3
  /\ opLog[1].op = "undo" /\ Len(opLog[1].undoBefore) >= 2
  /\ opLog[2].op = "undo" /\ opLog[2].cmd /= NoCmd
  /\ opLog[3].op = "redo" /\ opLog[3].cmd = opLog[2].cmd
  /\ undoStack /= <<>> /\ redoStack /= <<>>

\* C4: undo() with an empty undo sequence and redo() with an empty redo
\* sequence change neither sequence, no record (so no flag and no call
\* count: neither execute() nor undo() ran), and no node of the tree.
C4_EmptyUndoRedoAreNoOps ==
  [][ ((LastOp'.op = "undo" /\ undoStack = <<>>)
        \/ (LastOp'.op = "redo" /\ redoStack = <<>>)) =>
        /\ LastOp'.cmd = NoCmd
        /\ UNCHANGED <<factoryVars, drawVars, heap, cmds, undoStack, redoStack, observers,
                       notifications, currentState, iter, session>>
    ]_vars

\* C4 witness: an undo() on an empty undo sequence and a redo() on an empty
\* redo sequence, with records on the other sequence and in the tree.
C4_Witness ==
  /\ Len(opLog) = 3
  /\ opLog[1].op = "redo" /\ opLog[1].cmd = NoCmd
  /\ opLog[1].rootLen > 0
  /\ opLog[3].op = "undo" /\ opLog[3].cmd = NoCmd
  /\ opLog[3].redoBefore /= <<>>

\* ------------------------------------------------------- claims C5 .. C8
\* The iterator is exhausted: hasNext() is false.
RunComplete == iter.built /\ ~HasNext(iter, heap)

\* The step is a call of next(): it yields an element or the sentinel.
NextCalled ==
  /\ session'.last.op = "next"
  /\ session'.run /= session.run \/ session'.extra /= session.extra

\* C5: an iterator constructed over a tree of N nodes has yielded exactly N
\* elements when it is exhausted, N counting every node object under the
\* root, or every node with a decorator and what it wraps taken as one.
C5_IteratorYieldsEveryNode ==
  RunComplete =>
    \/ Len(session.run) = session.nodes
    \/ Len(session.run) = session.logical

\* C6: reset() sets the cursor to the start and leaves the flattened list as
\* it is, from any cursor position; and every full run yields, element by
\* element, what the first full run yielded.
C6_ResetRepeatsFirstRun ==
  [][ /\ session'.last.op = "reset" /\ session'.last /= session.last =>
           /\ iter'.position = 0
           /\ iter'.elements = iter.elements
      /\ RunComplete' /\ session'.completed > 0 =>
           session'.run = session'.firstRun
    ]_vars

\* C6 witness: a second full run completed, over a list that holds a nested
\* Section and its child.
C6_Witness ==
  /\ RunComplete
  /\ session.completed = 2
  /\ session.last.op = "next"
  /\ Len(session.run) >= 2
  /\ \E i \in 1..Len(session.run) : heap[session.run[i]].kind = "Section"

\* C7: next() called when hasNext() is false returns the sentinel and leaves
\* the iterator as it is, so hasNext() stays false; the cursor never exceeds
\* the length of the flattened list.
C7_NextPastEndReturnsSentinel ==
  [][ /\ NextCalled /\ ~HasNext(iter, heap) =>
           /\ session'.last.result = NoElem
           /\ iter' = iter
           /\ ~HasNext(iter', heap')
      /\ iter'.position <= Len(iter'.elements)
    ]_vars

\* C7 witness: the second next() past the end of a list of two or more.
C7_Witness ==
  /\ session.last.op = "next"
  /\ session.last.result = NoElem
  /\ session.extra >= 2
  /\ Len(iter.elements) >= 2

\* C8: an edit of the document (addElement, Section::add, executeCommand,
\* undo, redo) leaves the iterator as it is, and whatever edits are made
\* between the calls, the elements yielded are those of the tree at
\* construction, in order, and all of them once the iterator is exhausted.
C8_IteratorIsSnapshot ==
  [][ /\ opLog' /= opLog => iter' = iter
      /\ iter'.built =>
           /\ Len(session'.run) <= Len(session'.snapshot)
           /\ session'.run = SubSeq(session'.snapshot, 1, Len(session'.run))
      /\ RunComplete' => session'.run = session'.snapshot
    ]_vars

\* C8 witness: a run of two or more elements completed after an edit made
\* in its middle, the tree no longer being the one the iterator flattened.
C8_Witness ==
  /\ RunComplete
  /\ session.editedMidRun
  /\ Len(session.run) >= 2
  /\ CollectElements(heap, Root, <<>>) /= session.snapshot

\* ------------------------------------------------------------- claim C9
\* The (font, size, color) triple of a getFormat call.
Triple(call) == <<call.font, call.size, call.color>>

\* C9: two getFormat calls on one factory return the same instance if and
\* only if their (font, size, color) triples are equal.
C9_SameInstanceIffSameTriple ==
  \A i, j \in 1..Len(formatCalls) :
    (formatCalls[i].handle = formatCalls[j].handle)
      <=> (Triple(formatCalls[i]) = Triple(formatCalls[j]))

\* ------------------------------------------------------------ claim C10
\* C10: an ImageProxy has materialized its real Image exactly once if its
\* draw() has run, and not at all if it has not (whatever clone(), accept()
\* and getType() calls were made); the Image made by the first draw() stays
\* the proxy's Image, and no later step materializes another.
C10_ProxyLoadsOnceOnFirstDraw ==
  [][ /\ \A p \in Proxies' :
           /\ Count(loadCount', p) = IF Count(drawCount', p) > 0 THEN 1 ELSE 0
           /\ (heap'[p].realImage /= NoElem) <=> (Count(drawCount', p) > 0)
      /\ \A p \in Proxies :
           heap[p].realImage /= NoElem =>
             /\ heap'[p].realImage = heap[p].realImage
             /\ Count(loadCount', p) = Count(loadCount, p)
    ]_vars

\* C10 witness: one proxy drawn twice and loaded once, and another proxy
\* just visited or asked its type, never drawn and not loaded.
C10_Witness ==
  \E p, q \in Proxies :
    /\ Count(drawCount, p) >= 2
    /\ Count(loadCount, p) = 1
    /\ elemCall.op \in {"accept", "getType"}
    /\ elemCall.node = q
    /\ Count(drawCount, q) = 0
    /\ heap[q].realImage = NoElem


\* ------------------------------------------------------ claims C11 .. C19
\* C11: a Document starts in Draft; setState(S) can be called in every state
\* for every S of Draft, Review, Published and makes S the current state,
\* Published -> Review and S -> S included; no other operation changes the
\* state; edit() prints the notice of the state set last.
C11_SetStateIsNeverRefused ==
  /\ currentState = "Draft"
  /\ [](\A s \in States : ENABLED SetStateCall(s, LifecycleLimits))
  /\ [][ /\ LastOp'.op = "setState" =>
              /\ currentState' = LastOp'.state
              /\ LastOp'.from = currentState
         /\ LastOp'.op /= "setState" => currentState' = currentState
         /\ LastOp'.op = "edit" => LastOp'.notice = StateEdit(currentState)
         /\ (Len(opLog') = 2 /\ opLog'[1].op = "setState" /\ opLog'[2].op = "edit") =>
              opLog'[2].notice = StateEdit(opLog'[1].state) ]_vars

\* setState(Review) on a Published document, then edit(): the Review notice.
C11_Witness ==
  /\ Len(opLog) = 2
  /\ opLog[1].op = "setState" /\ opLog[1].from = "Published" /\ opLog[1].state = "Review"
  /\ opLog[2].op = "edit"
  /\ opLog[2].notice = "[State] Document in Review - limited editing allowed"
  /\ currentState = "Review"

\* C12: addElement(e) is accepted in every life-cycle state; it appends e as
\* the last child of the root and then calls every registered observer once
\* per registration, in registration order, each call seeing the tree with e
\* already in it.
C12_AddElementAppendsThenNotifies ==
  /\ [](\A t \in DocumentElementValues :
          Len(heap) + ValueSize(t) <= DocumentLimits.nodes =>
            ENABLED AddElement(t, DocumentLimits))
  /\ [][ LastOp'.op = "addElement" =>
           LET e == LastOp'.element
           IN /\ heap'[Root].children = Append(heap[Root].children, e)
              /\ observers' = observers
              /\ IF observers = <<>> THEN notifications' = notifications
                 ELSE /\ Len(notifications') = Len(observers)
                      /\ \A i \in 1..Len(observers) :
                           /\ notifications'[i].run = NextRun(notifications)
                           /\ notifications'[i].call.observer = observers[i]
                           /\ notifications'[i].call.rootChildren =
                                Append(heap[Root].children, e)
                           /\ notifications'[i].call.elementCount =
                                countElements(heap', Root) ]_vars

\* A Published document with observer 2 registered before observer 1 was
\* given an element: 2 was called, then 1, both seeing the element.
C12_Witness ==
  /\ LastOp.op = "addElement"
  /\ currentState = "Published"
  /\ observers = <<2, 1>>
  /\ Len(notifications) = 2
  /\ notifications[1].call.observer = 2
  /\ notifications[2].call.observer = 1
  /\ \A i \in 1..2 :
       /\ notifications[i].call.elementCount = 1
       /\ notifications[i].call.rootChildren = <<LastOp.element>>

\* C17: undo() of an append record only marks the record un-applied: no node
\* object changes, so the root keeps its children, their order and their
\* number; no observer is called and the observer list is kept.
C17_UndoOnlyClearsTheFlag ==
  [][ (LastOp'.op = "undo" /\ LastOp'.cmd /= NoCmd) =>
        LET c == LastOp'.cmd
        IN /\ heap' = heap
           /\ heap'[Root].children = RootChildren
           /\ notifications' = notifications
           /\ observers' = observers
           /\ Len(cmds') = Len(cmds)
           /\ ~cmds'[c].executed
           /\ cmds'[c].element = cmds[c].element
           /\ cmds'[c].clonedElement = cmds[c].clonedElement
           /\ \A d \in 1..Len(cmds) : d /= c => cmds'[d] = cmds[d] ]_vars

\* An applied append was undone on an observed document: its element is
\* still the root's child.
C17_Witness ==
  /\ LastOp.op = "undo"
  /\ LastOp.cmd /= NoCmd
  /\ ~cmds[LastOp.cmd].executed
  /\ cmds[LastOp.cmd].executeCalls = 1
  /\ observers /= <<>>
  /\ notifications /= <<>>
  /\ Len(RootChildren) = 1

\* C18: setState changes no node object, so the root keeps its children, keeps
\* the observer list and calls no observer; addElement, Section::add,
\* executeCommand, undo and redo keep the current life-cycle state.
C18_StateAndTreeAreIndependent ==
  [][ /\ LastOp'.op = "setState" =>
           /\ heap' = heap
           /\ heap'[Root].children = RootChildren
           /\ observers' = observers
           /\ notifications' = notifications
      /\ LastOp'.op \in {"addElement", "Section::add", "executeCommand", "undo", "redo"} =>
           currentState' = currentState ]_vars

\* An observed document that holds an element and has notified its observers
\* was moved from Review to Published.
C18_Witness ==
  /\ LastOp.op = "setState"
  /\ LastOp.from = "Review"
  /\ currentState = "Published"
  /\ RootChildren /= <<>>
  /\ observers /= <<>>
  /\ notifications /= <<>>
  /\ cmds /= <<>>

\* The step is a clone() call: its element and the clone it returned.
CloneStep == elemCall'.op = "clone" /\ elemCall' /= elemCall

\* C13: for every element E, a nested Section, a Bold or Italic decorator and
\* an ImageProxy loaded or not included, drawing E.clone() makes the same
\* renderer calls in the same order as drawing E.
C13_CloneDrawsAsOriginal ==
  [][ CloneStep =>
        LET n == elemCall'.node
            c == elemCall'.result
        IN /\ Draw(heap', c).out = Draw(heap, n).out
           /\ Draw(heap', c).out = Draw(heap', n).out ]_vars

\* A Section holding a Paragraph and an ImageProxy that has loaded its Image
\* was cloned: the clone's proxy is not loaded, and the clone draws the same.
C13_Witness ==
  /\ elemCall.op = "clone"
  /\ LET n == elemCall.node
         c == elemCall.result
     IN /\ n /= Root
        /\ heap[n].kind = "Section"
        /\ Len(heap[n].children) = 2 /\ Len(heap[c].children) = 2
        /\ heap[heap[n].children[2]].kind = "ImageProxy"
        /\ heap[heap[n].children[2]].realImage /= NoElem
        /\ heap[heap[c].children[2]].realImage = NoElem
        /\ Draw(heap, c).out = <<StartSection, RenderText("a b", FALSE, FALSE),
                                 RenderImage("photo.jpg"), EndSection>>

\* The node objects element n owns: its subtree and the Images its proxies
\* have loaded.
Owned(h, n) ==
  TreeNodes(h, n) \cup
  { h[p].realImage : p \in { q \in TreeNodes(h, n) : h[q].realImage /= NoElem } }

\* Element b of heap g is a duplicate of element a of heap h: the same kind and
\* content, and duplicates as children, in the same order.
RECURSIVE Duplicate(_, _, _, _)
Duplicate(h, a, g, b) ==
  /\ h[a].kind = g[b].kind
  /\ h[a].text = g[b].text
  /\ h[a].rows = g[b].rows
  /\ h[a].cols = g[b].cols
  /\ h[a].kind = "Section" =>
       /\ Len(h[a].children) = Len(g[b].children)
       /\ \A i \in 1..Len(h[a].children) :
            Duplicate(h, h[a].children[i], g, g[b].children[i])
  /\ IsDecorator(h[a]) => Duplicate(h, h[a].wrapped, g, g[b].wrapped)

\* The node objects element n owns, each with its fields.
View(h, n) == [m \in Owned(h, n) |-> h[m]]

\* C14: C.clone() of a Section C with children c1..cn is a Section with n
\* children, the i-th a duplicate of ci; no node object of the clone is a node
\* object of C; adding a child to C or to the clone afterwards leaves the
\* other as it was.
C14_SectionCloneIsDeepAndIndependent ==
  [][ /\ (CloneStep /\ heap[elemCall'.node].kind = "Section") =>
           LET n == elemCall'.node
               c == elemCall'.result
           IN /\ Len(heap'[c].children) = Len(heap[n].children)
              /\ \A i \in 1..Len(heap[n].children) :
                   Duplicate(heap, heap[n].children[i], heap', heap'[c].children[i])
              /\ heap'[c].text = heap[n].text
              /\ Owned(heap', c) \cap Owned(heap', n) = {}
              /\ Owned(heap', c) \cap (1..Len(heap)) = {}
              /\ \A m \in 1..Len(heap) : heap'[m] = heap[m]
      /\ (elemCall.op = "clone" /\ elemCall' = elemCall) =>
           LET n == elemCall.node
               c == elemCall.result
           IN /\ View(heap', c) /= View(heap, c) => View(heap', n) = View(heap, n)
              /\ View(heap', n) /= View(heap, n) => View(heap', c) = View(heap, c) ]_vars

\* A Section of two children was cloned and a child then added to the clone:
\* the clone has three children, the Section its two.
C14_Witness ==
  /\ elemCall.op = "clone"
  /\ LastOp.op = "Section::add"
  /\ LET n == elemCall.node
         c == elemCall.result
     IN /\ n /= Root
        /\ heap[n].kind = "Section"
        /\ Len(heap[n].children) = 2
        /\ Len(heap[c].children) = 3
        /\ heap[c].children[3] = LastOp.element
        /\ Duplicate(heap, heap[n].children[1], heap, heap[c].children[1])
        /\ Duplicate(heap, heap[n].children[2], heap, heap[c].children[2])

SectionAncestors(h, top, m) ==
  Cardinality({ s \in TreeNodes(h, top) :
                  h[s].kind = "Section" /\ s /= m /\ m \in TreeNodes(h, s) })

\* C16: an XML export started by Section::accept writes one line per node
\* visited, in visit order, and indents each line by the number of Sections
\* the node lies inside, whatever the tree, a node that follows a nested
\* Section among its parent's children included.
C16_XmlIndentIsNestingDepth ==
  elemCall.op = "exportXML" =>
    LET lines == Tail(elemCall.result)
        calls == elemCall.calls
    IN /\ Len(lines) = Len(calls)
       /\ \A i \in 1..Len(lines) :
            /\ lines[i].node = calls[i].node
            /\ lines[i].indent =
                 IndentWidth * SectionAncestors(heap, elemCall.node, lines[i].node)

\* The element a chain of decorators starting at node n wraps.
RECURSIVE Unwrapped(_, _)
Unwrapped(h, n) == IF IsDecorator(h[n]) THEN Unwrapped(h, h[n].wrapped) ELSE n

\* C19: the elements an iterator yields are, node for node and in the same
\* pre-order, the nodes root->accept(visitor) calls the visitor on, the root
\* left out and a decorator taken as the element it wraps; so both enter the
\* same Sections, a Section inside a Bold or Italic decorator included.
C19_IteratorAgreesWithVisitor ==
  (RunComplete /\ ~session.editedMidRun) =>
    /\ Len(session.run) = Len(session.visited) - 1
    /\ \A i \in 1..Len(session.run) :
         Unwrapped(heap, session.run[i]) = session.visited[i + 1].node
====
